---- MODULE Spec2Model ----
(***************************************************************************)
(* Job lifecycle of covergen-app: one row of generation_jobs, the          *)
(* generated_outputs rows and the blobs of its runs, and the requests that *)
(* act on it concurrently:                                                 *)
(*   - POST  /api/jobs/{id}/generate  (src/unnamed/part_013, POST)         *)
(*   - PATCH /api/jobs/{id}/cancel    (src/unnamed/part_013, PATCH)        *)
(*   - the server action processGenerationJob                              *)
(*     (src/app/actions/generate-covers.ts)                                *)
(* Every await of a handler that reads or writes the shared rows is one    *)
(* step; the steps of different requests interleave freely, as the         *)
(* handlers take no lock and use no transaction.                           *)
(***************************************************************************)
EXTENDS Integers, Sequences, FiniteSets, TLC

VARIABLES
    job,                \* the generation_jobs row
    generated_outputs,  \* the generated_outputs rows of the job
    storage,            \* keys of the blobs in bucket app-covers under outputs/
    env,                \* process.env: which provider API keys are configured
    req,                \* the requests: kind, position and local variables
    cancelledWhileQueued, \* history: the last accepted cancel hit a queued job
                          \* and no generate request has been issued since
    run,                \* one orchestrator run followed request by request and
                        \* image by image (specification SpecRun)
    fn,                 \* one call of a pure function: its input and its result
                        \* (specifications SpecExtract and SpecPrompt)
    db                  \* the rows, the blobs and the requests of the handlers
                        \* that do not act on the job's status

vars == <<job, generated_outputs, storage, env, req, cancelledWhileQueued,
          run, fn, db>>

\* the variables of the concurrent job lifecycle (specification Spec)
lifecycle == <<job, generated_outputs, storage, env, req, cancelledWhileQueued>>

----------------------------------------------------------------------------
(* Bounds *)

\* number of requests issued against the job
MaxReq == 2
\* largest num_variations of the job
MaxVar == 2
\* most images one provider call yields (in one response, and in all)
MaxImages == 3

Req == 1..MaxReq

NULL == "NULL"
NOW == "now"

Statuses == {"queued", "running", "succeeded", "failed", "cancelled"}

----------------------------------------------------------------------------
(* Error messages *)

CancelledByUser == "Cancelled by user"
GENERATION_ERROR == "GENERATION_ERROR"
UnknownError == "Unknown error"
ClientError == "createClient or getUser failed"
AssetsQueryError == "job_assets query error"
AssetsDataError == "assets query error"
UpdateError == "generation_jobs update error"
InsertErrorMessage == "generated_outputs insert error"
SharpError == "Input buffer contains unsupported image format"
GeminiKeyMissing == "GOOGLE_API_KEY environment variable is not set."
GeminiFirstFailed == "Failed to generate images with Gemini API"
GeminiNoImages == "Gemini API did not return any images."
ImagenKeyMissing == "GOOGLE_IMAGEN_API_KEY or GEMINI_API_KEY not configured."
ImagenExhausted == "Failed to generate images with Google Imagen API."

UploadFailed(i) == "Failed to upload output " \o ToString(i + 1)
SaveFailed(i) == "Failed to save output " \o ToString(i + 1)

\* error.message || "Unknown error"
MessageOr(m) == IF m = "" THEN UnknownError ELSE m

----------------------------------------------------------------------------
(* The per-variation adapter: one request per variation, in sequence.      *)
(* responses[v] is RequestFailed (the request of variation v threw) or the *)
(* number of image parts of its response.                                  *)

RequestFailed == -1

Responses == {RequestFailed} \cup (0..MaxImages)

RECURSIVE GeminiLoop(_, _, _, _)
GeminiLoop(responses, numVariations, i, n) ==
    IF i >= numVariations
    THEN IF n = 0
         THEN [ok |-> FALSE, images |-> 0, error |-> GeminiNoImages]
         ELSE [ok |-> TRUE, images |-> n, error |-> NULL]
    ELSE IF responses[i + 1] = RequestFailed
         THEN IF i = 0
              THEN [ok |-> FALSE, images |-> 0, error |-> GeminiFirstFailed]
              ELSE GeminiLoop(responses, numVariations, i + 1, n)
         ELSE GeminiLoop(responses, numVariations, i + 1, n + responses[i + 1])

generateImagesWithGemini(apiKey, numVariations, responses) ==
    IF ~apiKey
    THEN [ok |-> FALSE, images |-> 0, error |-> GeminiKeyMissing]
    ELSE GeminiLoop(responses, numVariations, 0, 0)

\* what the adapter can answer for a job of numVariations variations, over
\* all the responses the provider can give
GeminiOutcomes[apiKey \in BOOLEAN, numVariations \in 1..MaxVar] ==
    { res \in { generateImagesWithGemini(apiKey, numVariations, responses) :
                   responses \in [1..numVariations -> Responses] } :
        res.images <= MaxImages }

----------------------------------------------------------------------------
(* Requests *)

IdleReq == [kind |-> NULL, pc |-> "idle", status |-> NULL, images |-> 0,
            i |-> 0, error |-> NULL, resp |-> 0]

Set(r, rec) == [req EXCEPT ![r] = rec]

\* a request ends with an HTTP response
Respond(r, code) ==
    Set(r, [IdleReq EXCEPT !.kind = req[r].kind, !.pc = "done", !.resp = code])

\* a throw inside the handler's try block
Throw(r, message) == Set(r, [req[r] EXCEPT !.pc = "catch", !.error = message])

OutputRow(r, i) ==
    [id |-> <<r, i>>, variant_index |-> i, storage_key |-> <<r, i>>]

Init ==
    /\ job \in [status : {"queued"}, started_at : {NULL}, finished_at : {NULL},
                error_message : {NULL}, error_code : {NULL},
                num_variations : {1, MaxVar}]
    /\ generated_outputs = {}
    /\ storage = {}
    /\ env \in [GOOGLE_API_KEY : BOOLEAN, GOOGLE_IMAGEN_API_KEY : BOOLEAN]
    /\ req = [r \in Req |-> IdleReq]
    /\ cancelledWhileQueued = FALSE
    /\ run = NULL
    /\ fn = NULL
    /\ db = NULL

----------------------------------------------------------------------------
(* The user, the wizard or the dialog sends a request.  Requests are       *)
(* numbered in the order they are sent.  processGenerationJob is called    *)
(* once, by the create-job dialog right after it inserted the job.         *)

Issued(r) == req[r].pc # "idle"

IssueGenerate(r) ==
    /\ ~Issued(r)
    /\ \A q \in Req : q < r => Issued(q)
    /\ req' = Set(r, [IdleReq EXCEPT !.kind = "generate", !.pc = "fetch"])
    /\ cancelledWhileQueued' = FALSE
    /\ UNCHANGED <<job, generated_outputs, storage, env, run, fn, db>>

IssueCancel(r) ==
    /\ ~Issued(r)
    /\ \A q \in Req : q < r => Issued(q)
    /\ req' = Set(r, [IdleReq EXCEPT !.kind = "cancel", !.pc = "fetch"])
    /\ UNCHANGED <<job, generated_outputs, storage, env, cancelledWhileQueued, run, fn, db>>

IssueAction(r) ==
    /\ ~Issued(r)
    /\ r = 1
    /\ req' = Set(r, [IdleReq EXCEPT !.kind = "action", !.pc = "set_running"])
    /\ UNCHANGED <<job, generated_outputs, storage, env, cancelledWhileQueued, run, fn, db>>

----------------------------------------------------------------------------
(* POST /api/jobs/{jobId}/generate *)

\* the status guard
CanGenerate(status) ==
    status = "queued" \/ status = "failed" \/ status = "cancelled"

\* auth check, fetch of the job row, status guard
GenFetch(r) ==
    /\ req[r].kind = "generate" /\ req[r].pc = "fetch"
    /\ \/ req' = Throw(r, ClientError)           \* createClient / getUser throws
       \/ req' = Respond(r, 401)                 \* no user
       \/ req' = Respond(r, 404)                 \* not the owner's job
       \/ /\ ~CanGenerate(job.status)
          /\ req' = Respond(r, 400)
       \/ /\ CanGenerate(job.status)
          /\ req' = Set(r, [req[r] EXCEPT
                 !.status = job.status,
                 !.pc = IF job.status = "cancelled" THEN "reset" ELSE "set_running"])
    /\ UNCHANGED <<job, generated_outputs, storage, env, cancelledWhileQueued, run, fn, db>>

\* "If job was cancelled, reset it to queued"
GenReset(r) ==
    /\ req[r].kind = "generate" /\ req[r].pc = "reset"
    /\ job' = [job EXCEPT !.status = "queued", !.error_message = NULL,
                          !.finished_at = NULL]
    /\ req' = Set(r, [req[r] EXCEPT !.pc = "set_running"])
    /\ UNCHANGED <<generated_outputs, storage, env, cancelledWhileQueued, run, fn, db>>

\* "Update job to running"
GenRunning(r) ==
    /\ req[r].kind = "generate" /\ req[r].pc = "set_running"
    /\ job' = [job EXCEPT !.status = "running", !.started_at = NOW]
    /\ req' = Set(r, [req[r] EXCEPT !.pc = "generate"])
    /\ UNCHANGED <<generated_outputs, storage, env, cancelledWhileQueued, run, fn, db>>

\* fetch of job_assets and assets (either query may fail), download of the
\* asset blobs, prompt enhancement (never throws) and the provider call
GenGenerate(r) ==
    /\ req[r].kind = "generate" /\ req[r].pc = "generate"
    /\ \/ req' = Throw(r, AssetsQueryError)
       \/ req' = Throw(r, AssetsDataError)
       \/ \E res \in GeminiOutcomes[env.GOOGLE_API_KEY, job.num_variations] :
            req' = IF res.ok
                   THEN Set(r, [req[r] EXCEPT !.pc = "persist",
                                              !.images = res.images, !.i = 0])
                   ELSE Throw(r, res.error)
    /\ UNCHANGED <<job, generated_outputs, storage, env, cancelledWhileQueued, run, fn, db>>

\* mutant of GenPersist: a failed insert is logged and the loop goes on
GenPersistSkipsFailedInsert(r) ==
    /\ req[r].kind = "generate" /\ req[r].pc = "persist"
    /\ \/ /\ req' = Throw(r, UploadFailed(req[r].i))
          /\ UNCHANGED <<storage, generated_outputs>>
       \/ /\ storage' = storage \cup {<<r, req[r].i>>}
          /\ \/ UNCHANGED generated_outputs
             \/ generated_outputs' = generated_outputs \cup {OutputRow(r, req[r].i)}
          /\ req' = Set(r, [req[r] EXCEPT
                 !.i = @ + 1,
                 !.pc = IF req[r].i + 1 < req[r].images THEN "persist" ELSE "succeed"])
    /\ UNCHANGED <<job, env, cancelledWhileQueued, run, fn, db>>

\* one iteration of the loop: resize (falls back to the original bytes),
\* upload of variant i under a fresh key, insert of its Output row
GenPersist(r) ==
    /\ req[r].kind = "generate" /\ req[r].pc = "persist"
    /\ \/ /\ req' = Throw(r, UploadFailed(req[r].i))
          /\ UNCHANGED <<storage, generated_outputs>>
       \/ /\ storage' = storage \cup {<<r, req[r].i>>}
          /\ req' = Throw(r, SaveFailed(req[r].i))
          /\ UNCHANGED generated_outputs
       \/ /\ storage' = storage \cup {<<r, req[r].i>>}
          /\ generated_outputs' = generated_outputs \cup {OutputRow(r, req[r].i)}
          /\ req' = Set(r, [req[r] EXCEPT
                 !.i = @ + 1,
                 !.pc = IF req[r].i + 1 < req[r].images THEN "persist" ELSE "succeed"])
    /\ UNCHANGED <<job, env, cancelledWhileQueued, run, fn, db>>

\* mutant of GenSucceed: a cancelled job is left cancelled
GenSucceedUnlessCancelled(r) ==
    /\ req[r].kind = "generate" /\ req[r].pc = "succeed"
    /\ job' = IF job.status = "cancelled" THEN job
              ELSE [job EXCEPT !.status = "succeeded", !.finished_at = NOW]
    /\ req' = Respond(r, 200)
    /\ UNCHANGED <<generated_outputs, storage, env, cancelledWhileQueued, run, fn, db>>

\* "Update job to succeeded"
GenSucceed(r) ==
    /\ req[r].kind = "generate" /\ req[r].pc = "succeed"
    /\ job' = [job EXCEPT !.status = "succeeded", !.finished_at = NOW]
    /\ req' = Respond(r, 200)
    /\ UNCHANGED <<generated_outputs, storage, env, cancelledWhileQueued, run, fn, db>>

\* mutant of GenCatch: the update forgets the error code
GenCatchNoErrorCode(r) ==
    /\ req[r].kind = "generate" /\ req[r].pc = "catch"
    /\ job' = [job EXCEPT !.status = "failed", !.finished_at = NOW,
                          !.error_message = MessageOr(req[r].error)]
    /\ req' = Respond(r, 500)
    /\ UNCHANGED <<generated_outputs, storage, env, cancelledWhileQueued, run, fn, db>>

\* the catch block: "Update job to failed"
GenCatch(r) ==
    /\ req[r].kind = "generate" /\ req[r].pc = "catch"
    /\ job' = [job EXCEPT !.status = "failed", !.finished_at = NOW,
                          !.error_message = MessageOr(req[r].error),
                          !.error_code = GENERATION_ERROR]
    /\ req' = Respond(r, 500)
    /\ UNCHANGED <<generated_outputs, storage, env, cancelledWhileQueued, run, fn, db>>

Generate(r) ==
    \/ GenFetch(r) \/ GenReset(r) \/ GenRunning(r) \/ GenGenerate(r)
    \/ GenPersist(r) \/ GenSucceed(r) \/ GenCatch(r)

----------------------------------------------------------------------------
(* PATCH /api/jobs/{jobId}/cancel *)

\* mutant of CanCancel: the guard also lets a failed job through
CanCancelAlsoFailed(status) ==
    status = "queued" \/ status = "running" \/ status = "failed"

\* "Only allow canceling queued or running jobs"
CanCancel(status) == status = "queued" \/ status = "running"

\* auth check, fetch of the job row, status guard
CancelFetch(r) ==
    /\ req[r].kind = "cancel" /\ req[r].pc = "fetch"
    /\ \/ req' = Respond(r, 500)                 \* a throw: the catch only answers
       \/ req' = Respond(r, 401)
       \/ req' = Respond(r, 404)
       \/ /\ ~CanCancel(job.status)
          /\ req' = Respond(r, 400)
       \/ /\ CanCancel(job.status)
          /\ req' = Set(r, [req[r] EXCEPT !.status = job.status, !.pc = "update"])
    /\ UNCHANGED <<job, generated_outputs, storage, env, cancelledWhileQueued, run, fn, db>>

\* "Update job to cancelled"
CancelUpdate(r) ==
    /\ req[r].kind = "cancel" /\ req[r].pc = "update"
    /\ \/ /\ req' = Respond(r, 500)              \* throw updateError
          /\ UNCHANGED <<job, cancelledWhileQueued>>
       \/ /\ job' = [job EXCEPT !.status = "cancelled", !.finished_at = NOW,
                                !.error_message = CancelledByUser]
          /\ cancelledWhileQueued' = (job.status = "queued")
          /\ req' = Respond(r, 200)
    /\ UNCHANGED <<generated_outputs, storage, env, run, fn, db>>

Cancel(r) == CancelFetch(r) \/ CancelUpdate(r)

----------------------------------------------------------------------------
(* processGenerationJob, the server action.  It answers by returning       *)
(* (resp 200) or by re-raising the error (resp 500).                       *)

\* "1. Actualizar job a running"
ActRunning(r) ==
    /\ req[r].kind = "action" /\ req[r].pc = "set_running"
    /\ \/ /\ req' = Throw(r, UpdateError)
          /\ UNCHANGED job
       \/ /\ job' = [job EXCEPT !.status = "running", !.started_at = NOW]
          /\ req' = Set(r, [req[r] EXCEPT !.pc = "generate"])
    /\ UNCHANGED <<generated_outputs, storage, env, cancelledWhileQueued, run, fn, db>>

\* getJobAssets (its errors are swallowed) and the batched provider call
ActGenerate(r) ==
    /\ req[r].kind = "action" /\ req[r].pc = "generate"
    /\ \/ /\ ~env.GOOGLE_IMAGEN_API_KEY
          /\ req' = Throw(r, ImagenKeyMissing)
       \/ /\ env.GOOGLE_IMAGEN_API_KEY
          /\ req' = Throw(r, ImagenExhausted)
       \/ /\ env.GOOGLE_IMAGEN_API_KEY
          /\ \E n \in 1..MaxImages :
               req' = Set(r, [req[r] EXCEPT !.pc = "persist", !.images = n, !.i = 0])
    /\ UNCHANGED <<job, generated_outputs, storage, env, cancelledWhileQueued, run, fn, db>>

\* one iteration of the loop: decode, metadata, resize and re-encode (a
\* throw is fatal), upload of variant i under a fresh key, insert of its
\* Output row (throw insertError)
ActPersist(r) ==
    /\ req[r].kind = "action" /\ req[r].pc = "persist"
    /\ \/ /\ req' = Throw(r, SharpError)
          /\ UNCHANGED <<storage, generated_outputs>>
       \/ /\ req' = Throw(r, UploadFailed(req[r].i))
          /\ UNCHANGED <<storage, generated_outputs>>
       \/ /\ storage' = storage \cup {<<r, req[r].i>>}
          /\ req' = Throw(r, InsertErrorMessage)
          /\ UNCHANGED generated_outputs
       \/ /\ storage' = storage \cup {<<r, req[r].i>>}
          /\ generated_outputs' = generated_outputs \cup {OutputRow(r, req[r].i)}
          /\ req' = Set(r, [req[r] EXCEPT
                 !.i = @ + 1,
                 !.pc = IF req[r].i + 1 < req[r].images THEN "persist" ELSE "succeed"])
    /\ UNCHANGED <<job, env, cancelledWhileQueued, run, fn, db>>

\* "6. Actualizar job a succeeded"
ActSucceed(r) ==
    /\ req[r].kind = "action" /\ req[r].pc = "succeed"
    /\ job' = [job EXCEPT !.status = "succeeded", !.finished_at = NOW]
    /\ req' = Respond(r, 200)
    /\ UNCHANGED <<generated_outputs, storage, env, cancelledWhileQueued, run, fn, db>>

\* "7. Si falla, actualizar job a failed", then throw error
ActCatch(r) ==
    /\ req[r].kind = "action" /\ req[r].pc = "catch"
    /\ job' = [job EXCEPT !.status = "failed", !.finished_at = NOW,
                          !.error_message = MessageOr(req[r].error),
                          !.error_code = GENERATION_ERROR]
    /\ req' = Respond(r, 500)
    /\ UNCHANGED <<generated_outputs, storage, env, cancelledWhileQueued, run, fn, db>>

processGenerationJob(r) ==
    \/ ActRunning(r) \/ ActGenerate(r) \/ ActPersist(r) \/ ActSucceed(r)
    \/ ActCatch(r)

----------------------------------------------------------------------------
Next ==
    \E r \in Req :
        \/ IssueGenerate(r) \/ IssueCancel(r) \/ IssueAction(r)
        \/ Generate(r) \/ Cancel(r) \/ processGenerationJob(r)

Spec == Init /\ [][Next]_vars

TypeOK ==
    /\ job.status \in Statuses
    /\ job.started_at \in {NULL, NOW} /\ job.finished_at \in {NULL, NOW}
    /\ job.num_variations \in 1..MaxVar
    /\ \A r \in Req : req[r].i <= req[r].images /\ req[r].images <= MaxImages
    /\ \A o \in generated_outputs : o.storage_key \in storage

----------------------------------------------------------------------------
(* One run in detail.  A job is created by the wizard (which stores the    *)
(* aspect ratio of the prompt builder and then sends POST generate) or by  *)
(* the create-job dialog (free-text target store, no aspect ratio, then    *)
(* processGenerationJob); a dialog job that failed can be restarted with    *)
(* POST generate.  Every HTTP request to the provider and every iteration  *)
(* of the per-image loop is one step.                                      *)

\* store identifiers: of the dialog ("ios or android"), of the wizard
\* (appstore, playstore, both), and one that no code path recognizes
StoreIds == {"ios", "android", "both", "appstore", "playstore", "web"}

WizardStores == {"appstore", "playstore", "both"}

\* mutant of getAspectRatio: the default is the wide format
getAspectRatioDefaultWide(targetStore) ==
    IF targetStore = "appstore"
    THEN [width |-> 1024, height |-> 1024, ratio |-> "1:1"]
    ELSE [width |-> 1024, height |-> 500, ratio |-> "1024:500"]

\* prompt-builder.ts getAspectRatio
getAspectRatio(targetStore) ==
    IF targetStore = "appstore"
    THEN [width |-> 1024, height |-> 1024, ratio |-> "1:1"]
    ELSE IF targetStore = "playstore"
         THEN [width |-> 1024, height |-> 500, ratio |-> "1024:500"]
         ELSE [width |-> 1024, height |-> 1024, ratio |-> "1:1"]

\* pixel sizes of the images the provider sends
ImageSizes == {<<1024, 1024>>, <<1536, 1024>>}

\* what sharp can do with an image: decode it, read only its header (the
\* resize fails), or nothing
Decodings == {"sound", "header_only", "unreadable"}

\* why an attempt on one endpoint of the batched adapter fails
EndpointFailures ==
    {"non_2xx", "html", "not_json", "json_parse", "thrown"}

NoError == [endpoint |-> 0, cause |-> NULL]

\* the endpoint configurations: generateImages, and Vertex AI predict when
\* GOOGLE_CLOUD_PROJECT_ID is set
endpoints(r) == IF r.GOOGLE_CLOUD_PROJECT_ID THEN <<1, 2>> ELSE <<1>>

NewRun(path, target_store, aspect_ratio, num_variations, keys) ==
    [path |-> path, target_store |-> target_store,
     aspect_ratio |-> aspect_ratio, num_variations |-> num_variations,
     GOOGLE_API_KEY |-> keys[1], GOOGLE_IMAGEN_API_KEY |-> keys[2],
     GOOGLE_CLOUD_PROJECT_ID |-> keys[3],
     pc |-> "set_running", status |-> "queued", error_message |-> NULL,
     error_code |-> NULL, called |-> FALSE, i |-> 0, requests |-> <<>>,
     generatedImages |-> <<>>, lastError |-> NoError, tried |-> 0,
     error |-> NULL, outputs |-> <<>>, blobs |-> 0]

InitRun ==
    /\ \E n \in 1..MaxVar, keys \in BOOLEAN \X BOOLEAN \X BOOLEAN :
        \/ \E t \in WizardStores :
             run = NewRun("generate", t, getAspectRatio(t).ratio, n, keys)
        \/ \E t \in StoreIds, path \in {"action", "generate"} :
             run = NewRun(path, t, NULL, n, keys)
    /\ job = [status |-> "queued", started_at |-> NULL, finished_at |-> NULL,
              error_message |-> NULL, error_code |-> NULL, num_variations |-> 1]
    /\ generated_outputs = {}
    /\ storage = {}
    /\ env = [GOOGLE_API_KEY |-> TRUE, GOOGLE_IMAGEN_API_KEY |-> TRUE]
    /\ req = [r \in Req |-> IdleReq]
    /\ cancelledWhileQueued = FALSE
    /\ fn = NULL
    /\ db = NULL

RunThrow(message) == [run EXCEPT !.pc = "catch", !.error = message]

\* "Update job to running" / "1. Actualizar job a running"
RunSetRunning ==
    /\ run.pc = "set_running"
    /\ \/ /\ run.path = "action"
          /\ run' = RunThrow(UpdateError)
       \/ run' = [run EXCEPT !.status = "running", !.pc = "call"]
    /\ UNCHANGED <<lifecycle, fn, db>>

\* mutant of RunCall: the adapters send their requests without a key
RunCallNoKeyCheck ==
    /\ run.pc = "call"
    /\ \/ /\ run.path = "generate"
          /\ \/ run' = RunThrow(AssetsQueryError)
             \/ run' = RunThrow(AssetsDataError)
             \/ run' = [run EXCEPT !.called = TRUE, !.pc = "request", !.i = 0]
       \/ /\ run.path = "action"
          /\ run' = [run EXCEPT !.called = TRUE, !.pc = "request", !.i = 1]
    /\ UNCHANGED <<lifecycle, fn, db>>

\* the orchestrator reaches the adapter and the adapter checks its API key;
\* in POST the two asset queries come first and either may throw
RunCall ==
    /\ run.pc = "call"
    /\ \/ /\ run.path = "generate"
          /\ \/ run' = RunThrow(AssetsQueryError)
             \/ run' = RunThrow(AssetsDataError)
             \/ /\ ~run.GOOGLE_API_KEY
                /\ run' = [RunThrow(GeminiKeyMissing) EXCEPT !.called = TRUE]
             \/ /\ run.GOOGLE_API_KEY
                /\ run' = [run EXCEPT !.called = TRUE, !.pc = "request", !.i = 0]
       \/ /\ run.path = "action"
          /\ \/ /\ ~run.GOOGLE_IMAGEN_API_KEY
                /\ run' = [RunThrow(ImagenKeyMissing) EXCEPT !.called = TRUE]
             \/ /\ run.GOOGLE_IMAGEN_API_KEY
                /\ run' = [run EXCEPT !.called = TRUE, !.pc = "request", !.i = 1]
    /\ UNCHANGED <<lifecycle, fn, db>>

\* n images yielded by request i
Yield(i, n) == [k \in 1..n |-> i]

\* the log of the HTTP requests sent to the provider: the variation or the
\* endpoint, and what came back
Answered(i, n) == [index |-> i, ok |-> TRUE, images |-> n, cause |-> NULL]
Failed(i, cause) == [index |-> i, ok |-> FALSE, images |-> 0, cause |-> cause]

GeminiSent(response) ==
    [run EXCEPT !.requests =
        Append(@, IF response = RequestFailed THEN Failed(run.i, "thrown")
                                              ELSE Answered(run.i, response))]

\* the end of the loop of generateImagesWithGemini
GeminiReturn(r) ==
    IF r.i < r.num_variations THEN r
    ELSE IF r.generatedImages = <<>>
         THEN [r EXCEPT !.pc = "catch", !.error = GeminiNoImages]
         ELSE [r EXCEPT !.pc = "persist", !.i = 0]

\* mutant of GeminiRequest: a failed request always aborts the call
GeminiRequestAlwaysFatal ==
    /\ run.path = "generate" /\ run.pc = "request"
    /\ \E response \in Responses :
         LET sent == GeminiSent(response) IN
         IF response = RequestFailed
         THEN run' = [sent EXCEPT !.pc = "catch", !.error = GeminiFirstFailed]
         ELSE /\ Len(run.generatedImages) + response <= MaxImages
              /\ run' = GeminiReturn([sent EXCEPT
                     !.generatedImages = @ \o Yield(run.i, response),
                     !.i = @ + 1])
    /\ UNCHANGED <<lifecycle, fn, db>>

\* one iteration of the loop of generateImagesWithGemini: the request of
\* variation i fails, or its response carries some number of image parts
GeminiRequest ==
    /\ run.path = "generate" /\ run.pc = "request"
    /\ \E response \in Responses :
         LET sent == GeminiSent(response) IN
         IF response = RequestFailed
         THEN IF run.i = 0
              THEN run' = [sent EXCEPT !.pc = "catch",
                                       !.error = GeminiFirstFailed]
              ELSE run' = GeminiReturn([sent EXCEPT !.i = @ + 1])
         ELSE /\ Len(run.generatedImages) + response <= MaxImages
              /\ run' = GeminiReturn([sent EXCEPT
                     !.generatedImages = @ \o Yield(run.i, response),
                     !.i = @ + 1])
    /\ UNCHANGED <<lifecycle, fn, db>>

\* the end of the loop of generateImagesWithGoogle: every endpoint failed
ImagenNext(r) ==
    IF r.i < Len(endpoints(r)) THEN [r EXCEPT !.i = @ + 1]
    ELSE [r EXCEPT !.pc = "catch", !.error = ImagenExhausted,
                   !.tried = Len(endpoints(r))]

\* mutant of ImagenRequest: the images of a response are kept and the next
\* endpoint is tried as well
ImagenRequestTriesAll ==
    /\ run.path = "action" /\ run.pc = "request"
    /\ LET e == endpoints(run)[run.i] IN
       \/ \E cause \in EndpointFailures :
            run' = ImagenNext([run EXCEPT
                      !.requests = Append(@, Failed(e, cause)),
                      !.lastError = [endpoint |-> e, cause |-> cause]])
       \/ \E n \in 0..MaxImages :
            /\ Len(run.generatedImages) + n <= MaxImages
            /\ LET got == [run EXCEPT
                              !.requests = Append(@, Answered(e, n)),
                              !.generatedImages = @ \o Yield(e, n)] IN
               IF run.i < Len(endpoints(run))
               THEN run' = [got EXCEPT !.i = @ + 1]
               ELSE IF got.generatedImages = <<>>
                    THEN run' = ImagenNext(got)
                    ELSE run' = [got EXCEPT !.pc = "persist", !.i = 0]
    /\ UNCHANGED <<lifecycle, fn, db>>

\* one iteration of the loop of generateImagesWithGoogle: the attempt on
\* endpoint i fails and is remembered in lastError, or its JSON body yields
\* n images (none: the next endpoint is tried and lastError is left as it is)
ImagenRequest ==
    /\ run.path = "action" /\ run.pc = "request"
    /\ LET e == endpoints(run)[run.i] IN
       \/ \E cause \in EndpointFailures :
            run' = ImagenNext([run EXCEPT
                      !.requests = Append(@, Failed(e, cause)),
                      !.lastError = [endpoint |-> e, cause |-> cause]])
       \/ \E n \in 0..MaxImages :
            LET sent == [run EXCEPT !.requests = Append(@, Answered(e, n))] IN
            IF n > 0
            THEN run' = [sent EXCEPT !.generatedImages = Yield(e, n),
                                     !.pc = "persist", !.i = 0]
            ELSE run' = ImagenNext(sent)
    /\ UNCHANGED <<lifecycle, fn, db>>

\* POST: "aspectRatio", the size the loop resizes to
PostTargetSize(aspect_ratio) ==
    IF aspect_ratio = "1024:500" THEN <<1024, 500>> ELSE <<1024, 1024>>

\* the Output row of variant i; is_png tells whether the stored bytes were
\* re-encoded to PNG (mime_type says image/png in every row)
DetailedRow(i, size, is_png) ==
    [variant_index |-> i, width |-> size[1], height |-> size[2],
     is_png |-> is_png, mime_type |-> "image/png"]

\* mutant of RunNextImage: the loop ends one image early
RunNextImageSkipsLast(r) ==
    [r EXCEPT !.i = @ + 1,
              !.pc = IF r.i + 2 < Len(r.generatedImages) THEN "persist"
                                                          ELSE "succeed"]

\* the loop goes on with the next image or ends
RunNextImage(r) ==
    [r EXCEPT !.i = @ + 1,
              !.pc = IF r.i + 1 < Len(r.generatedImages) THEN "persist"
                                                          ELSE "succeed"]

\* upload of the final bytes, then insert of the row; either may fail
RunStore(i, row, insertMessage) ==
    \/ run' = RunThrow(UploadFailed(i))
    \/ run' = [RunThrow(insertMessage) EXCEPT !.blobs = @ + 1]
    \/ run' = RunNextImage([run EXCEPT !.blobs = @ + 1,
                                       !.outputs = Append(@, row)])

\* POST, one iteration: resize and re-encode (on a failure the original
\* bytes are kept), upload, metadata of the final bytes (on a failure the
\* target size is kept), insert
PostPersist ==
    /\ run.path = "generate" /\ run.pc = "persist"
    /\ \E decoding \in Decodings, original \in ImageSizes :
         LET target == PostTargetSize(run.aspect_ratio)
             size == IF decoding = "header_only" THEN original ELSE target
         IN  RunStore(run.i, DetailedRow(run.i, size, decoding = "sound"),
                      SaveFailed(run.i))
    /\ UNCHANGED <<lifecycle, fn, db>>

\* processGenerationJob, one iteration: metadata, then resize and re-encode
\* by store (ios, android) or re-encode only (any other store); a sharp
\* failure is thrown; upload, insert
ActionPersist ==
    /\ run.path = "action" /\ run.pc = "persist"
    /\ \E decoding \in Decodings, original \in ImageSizes :
         IF decoding # "sound"
         THEN run' = RunThrow(SharpError)
         ELSE LET size == IF run.target_store = "ios" THEN <<1024, 1024>>
                          ELSE IF run.target_store = "android"
                               THEN <<1024, 500>>
                               ELSE original
              IN  RunStore(run.i, DetailedRow(run.i, size, TRUE),
                           InsertErrorMessage)
    /\ UNCHANGED <<lifecycle, fn, db>>

\* "Update job to succeeded"
RunSucceed ==
    /\ run.pc = "succeed"
    /\ run' = [run EXCEPT !.status = "succeeded", !.pc = "done"]
    /\ UNCHANGED <<lifecycle, fn, db>>

\* the catch block: "Update job to failed"
RunCatch ==
    /\ run.pc = "catch"
    /\ run' = [run EXCEPT !.status = "failed", !.pc = "done",
                          !.error_message = MessageOr(run.error),
                          !.error_code = GENERATION_ERROR]
    /\ UNCHANGED <<lifecycle, fn, db>>

NextRun ==
    \/ RunSetRunning \/ RunCall \/ GeminiRequest \/ ImagenRequest
    \/ PostPersist \/ ActionPersist \/ RunSucceed \/ RunCatch

SpecRun == InitRun /\ [][NextRun]_vars

----------------------------------------------------------------------------
(* extractImagesFromResponse (google-imagen-client.ts).  A JSON body is    *)
(* built item by item and the function is applied to it.  An array item is *)
(* null or an object with some truthy fields; an image of the result tells *)
(* the shape, the item and the field it was taken from and how it was      *)
(* written (as it is, or as a data URL).                                   *)

\* items of all arrays of one body
MaxItems == 3

ItemFields == {"imageUri", "base64", "url", "bytesBase64Encoded"}
DirectFields == {"imageUri", "url", "base64"}

Item(fields) == [isNull |-> FALSE, fields |-> fields]
NullItem == [isNull |-> TRUE, fields |-> {}]

Items ==
    {NullItem, Item({}), Item(ItemFields)} \cup {Item({f}) : f \in ItemFields}

\* parts of candidates[].content.parts: inlineData with an image mime type,
\* inlineData with another mime type, a part without inlineData, null
Parts == {"image", "other_inline", "text", "null"}

\* a candidate: null, or an object whose content.parts is a list or missing
Candidate(hasParts, parts) ==
    [isNull |-> FALSE, hasParts |-> hasParts, parts |-> parts]
NullCandidate == [isNull |-> TRUE, hasParts |-> FALSE, parts |-> <<>>]

Image(shape, at, field, form) ==
    [shape |-> shape, at |-> at, field |-> field, form |-> form]

Threw == [threw |-> TRUE, images |-> <<>>]
Got(images) == [threw |-> FALSE, images |-> images]

\* r, then what "more" adds to it, unless either threw
Then(r, more) ==
    IF r.threw \/ more.threw THEN Threw ELSE Got(r.images \o more.images)

\* "Formato 1": one item of generatedImages
FromGenerated(img, k) ==
    IF img.isNull THEN Threw
    ELSE IF "imageUri" \in img.fields
         THEN Got(<<Image("generatedImages", k, "imageUri", "as_is")>>)
    ELSE IF "base64" \in img.fields
         THEN Got(<<Image("generatedImages", k, "base64", "png_data_url")>>)
    ELSE IF "url" \in img.fields
         THEN Got(<<Image("generatedImages", k, "url", "as_is")>>)
    ELSE IF "bytesBase64Encoded" \in img.fields
         THEN Got(<<Image("generatedImages", k, "bytesBase64Encoded",
                          "png_data_url")>>)
    ELSE Got(<<>>)

\* "Formato 2": one item of predictions
FromPrediction(pred, k) ==
    IF pred.isNull THEN Threw
    ELSE IF "bytesBase64Encoded" \in pred.fields
         THEN Got(<<Image("predictions", k, "bytesBase64Encoded",
                          "png_data_url")>>)
    ELSE IF "imageUri" \in pred.fields
         THEN Got(<<Image("predictions", k, "imageUri", "as_is")>>)
    ELSE IF "base64" \in pred.fields
         THEN Got(<<Image("predictions", k, "base64", "png_data_url")>>)
    ELSE Got(<<>>)

\* "Formato 3": the three top-level fields, each tested on its own
FromDirect(direct) ==
    Got((IF "imageUri" \in direct
         THEN <<Image("direct", 1, "imageUri", "as_is")>> ELSE <<>>)
        \o (IF "url" \in direct
            THEN <<Image("direct", 2, "url", "as_is")>> ELSE <<>>)
        \o (IF "base64" \in direct
            THEN <<Image("direct", 3, "base64", "png_data_url")>> ELSE <<>>))

\* the place of part p of candidate c among the parts of all candidates
PartAt(c, p) == c * (MaxItems + 1) + p

\* "Formato 4": the parts of one candidate, from part p on
RECURSIVE FromParts(_, _, _)
FromParts(parts, c, p) ==
    IF p > Len(parts) THEN Got(<<>>)
    ELSE IF parts[p] = "null" THEN Threw
    ELSE Then(IF parts[p] = "image"
              THEN Got(<<Image("candidates", PartAt(c, p), "inlineData",
                               "mime_data_url")>>)
              ELSE Got(<<>>),
              FromParts(parts, c, p + 1))

FromCandidate(candidate, c) ==
    IF candidate.isNull THEN Threw
    ELSE IF candidate.hasParts THEN FromParts(candidate.parts, c, 1)
    ELSE Got(<<>>)

\* the body of the for-of loop of a shape
FromItem(name, item, k) ==
    IF name = "generatedImages" THEN FromGenerated(item, k)
    ELSE IF name = "predictions" THEN FromPrediction(item, k)
    ELSE FromCandidate(item, k)

\* a for-of loop over an array, from item k on
RECURSIVE Each(_, _, _)
Each(name, items, k) ==
    IF k > Len(items) THEN Got(<<>>)
    ELSE LET first == FromItem(name, items[k], k) IN
         IF first.threw THEN Threw
         ELSE Then(first, Each(name, items, k + 1))

\* a shape that is missing or no array is skipped
Shape(name, shape) ==
    IF shape.isArray THEN Each(name, shape.items, 1) ELSE Got(<<>>)

extractImagesFromResponse(data) ==
    Then(Then(Then(Shape("generatedImages", data.generatedImages),
                   Shape("predictions", data.predictions)),
              FromDirect(data.direct)),
         Shape("candidates", data.candidates))

\* number of array items and parts of a body
RECURSIVE PartCount(_)
PartCount(candidates) ==
    IF candidates = <<>> THEN 0
    ELSE 1 + Len(Head(candidates).parts) + PartCount(Tail(candidates))

Size(data) ==
    Len(data.generatedImages.items) + Len(data.predictions.items)
        + PartCount(data.candidates.items)

Apply(data) == [body |-> data, result |-> extractImagesFromResponse(data)]

InitExtract ==
    /\ \E present \in [{"generatedImages", "predictions", "candidates"} -> BOOLEAN],
          direct \in SUBSET DirectFields :
         fn = Apply([generatedImages |->
                        [isArray |-> present["generatedImages"], items |-> <<>>],
                     predictions |->
                        [isArray |-> present["predictions"], items |-> <<>>],
                     direct |-> direct,
                     candidates |->
                        [isArray |-> present["candidates"], items |-> <<>>]])
    /\ job = [status |-> "queued", started_at |-> NULL, finished_at |-> NULL,
              error_message |-> NULL, error_code |-> NULL, num_variations |-> 1]
    /\ generated_outputs = {}
    /\ storage = {}
    /\ env = [GOOGLE_API_KEY |-> TRUE, GOOGLE_IMAGEN_API_KEY |-> TRUE]
    /\ req = [r \in Req |-> IdleReq]
    /\ cancelledWhileQueued = FALSE
    /\ run = NULL
    /\ db = NULL

\* the body has one more item in generatedImages
AddGeneratedImage ==
    /\ fn.body.generatedImages.isArray /\ Size(fn.body) < MaxItems
    /\ \E item \in Items :
         fn' = Apply([fn.body EXCEPT !.generatedImages.items = Append(@, item)])
    /\ UNCHANGED <<lifecycle, run, db>>

\* the body has one more item in predictions
AddPrediction ==
    /\ fn.body.predictions.isArray /\ Size(fn.body) < MaxItems
    /\ \E item \in Items :
         fn' = Apply([fn.body EXCEPT !.predictions.items = Append(@, item)])
    /\ UNCHANGED <<lifecycle, run, db>>

\* the body has one more candidate
AddCandidate ==
    /\ fn.body.candidates.isArray /\ Size(fn.body) < MaxItems
    /\ \E candidate \in {NullCandidate, Candidate(FALSE, <<>>),
                         Candidate(TRUE, <<>>)} :
         fn' = Apply([fn.body EXCEPT !.candidates.items = Append(@, candidate)])
    /\ UNCHANGED <<lifecycle, run, db>>

\* the last candidate has one more part
AddPart ==
    /\ Size(fn.body) < MaxItems
    /\ fn.body.candidates.items # <<>>
    /\ LET c == Len(fn.body.candidates.items) IN
       /\ fn.body.candidates.items[c].hasParts
       /\ \E part \in Parts :
            fn' = Apply([fn.body EXCEPT
                           !.candidates.items[c].parts = Append(@, part)])
    /\ UNCHANGED <<lifecycle, run, db>>

NextExtract == AddGeneratedImage \/ AddPrediction \/ AddCandidate \/ AddPart

SpecExtract == InitExtract /\ [][NextExtract]_vars

----------------------------------------------------------------------------
(* buildCoverPrompt (prompt-builder.ts).  The prompt is the sequence of    *)
(* the sentences the function appends, each with the value it interpolates. *)
(* A configuration is drawn, the known assets are added one by one, each   *)
(* with its declared type and the role it is selected with (or none), and  *)
(* the function is applied.                                                *)

\* known assets of the project
MaxAssets == 3

Goals == {"attention", "clarity", "trust", "premium", "playful"}
Roles == {"reference_cover", "app_screenshot", "brand_logo"}
AssetTypes == Roles \cup {"other"}
Unselected == "none"

\* the style presets; layoutRules is the number of rules of the preset
STYLE_PRESETS ==
    [id \in {"minimal", "bold-gradient", "neon-gaming", "corporate-trust",
             "modern-saas"} |->
        [id |-> id,
         tone |-> CASE id = "minimal" -> "premium"
                    [] id \in {"bold-gradient", "neon-gaming"} -> "energetic"
                    [] OTHER -> "professional",
         contrast |-> CASE id = "minimal" -> "low"
                        [] id \in {"bold-gradient", "neon-gaming"} -> "high"
                        [] OTHER -> "medium",
         density |-> CASE id = "minimal" -> "sparse"
                       [] id = "neon-gaming" -> "dense"
                       [] OTHER -> "balanced",
         layoutRules |-> 5]]

\* style presets a configuration names: two known ones and an unknown one
StylePresetIds == {"minimal", "neon-gaming", "retro"}

MainMessages == {"", "Track every run"}

Clause(kind, arg) == [kind |-> kind, arg |-> arg]

\* assets.filter(a => selectedAssets.some(sa => sa.assetId === a.id &&
\* sa.role === role) && a.type === role)
SelectedOfRole(config, assets, role) ==
    SelectSeq(assets,
              LAMBDA a : /\ \E k \in 1..Len(config.selectedAssets) :
                              /\ config.selectedAssets[k].assetId = a.id
                              /\ config.selectedAssets[k].role = role
                         /\ a.type = role)

If(condition, clauses) == IF condition THEN clauses ELSE <<>>

ScreenshotClauses(n) ==
    <<Clause("screenshots", ""),
      IF n = 1 THEN Clause("screenshot_layout", "one prominently")
      ELSE IF n = 2 THEN Clause("screenshot_layout", "two balanced")
      ELSE Clause("screenshot_layout", ToString(n) \o " collage")>>

\* mutant of buildCoverPrompt: the Play Store sentence hangs on an else
buildCoverPromptElseIf(config, assets) ==
    LET preset == IF config.stylePreset \in DOMAIN STYLE_PRESETS
                  THEN STYLE_PRESETS[config.stylePreset]
                  ELSE STYLE_PRESETS["minimal"]
        referenceCovers == SelectedOfRole(config, assets, "reference_cover")
        screenshots == SelectedOfRole(config, assets, "app_screenshot")
        logos == SelectedOfRole(config, assets, "brand_logo")
    IN  <<Clause("opening", config.appCategory)>>
        \o If(config.goal \in Goals, <<Clause("goal", config.goal)>>)
        \o (IF config.targetStore = "appstore" \/ config.targetStore = "both"
            THEN <<Clause("square", "")>>
            ELSE If(config.targetStore = "playstore", <<Clause("wide", "")>>))
        \o <<Clause("style", preset.id), Clause("tone", preset.tone),
             Clause("contrast", preset.contrast),
             Clause("density", preset.density)>>
        \o If(preset.layoutRules > 0, <<Clause("layout", preset.id)>>)
        \o If(Len(referenceCovers) > 0, <<Clause("reference", "")>>)
        \o If(Len(screenshots) > 0, ScreenshotClauses(Len(screenshots)))
        \o If(Len(logos) > 0, <<Clause("logo", "")>>)
        \o If(config.mainMessage # "", <<Clause("message", config.mainMessage)>>)
        \o <<Clause("quality", ""), Clause("no_text", ""),
             Clause("production", "")>>

buildCoverPrompt(config, assets) ==
    LET preset == IF config.stylePreset \in DOMAIN STYLE_PRESETS
                  THEN STYLE_PRESETS[config.stylePreset]
                  ELSE STYLE_PRESETS["minimal"]
        referenceCovers == SelectedOfRole(config, assets, "reference_cover")
        screenshots == SelectedOfRole(config, assets, "app_screenshot")
        logos == SelectedOfRole(config, assets, "brand_logo")
    IN  <<Clause("opening", config.appCategory)>>
        \o If(config.goal \in Goals, <<Clause("goal", config.goal)>>)
        \o If(config.targetStore = "appstore" \/ config.targetStore = "both",
              <<Clause("square", "")>>)
        \o If(config.targetStore = "playstore" \/ config.targetStore = "both",
              <<Clause("wide", "")>>)
        \o <<Clause("style", preset.id), Clause("tone", preset.tone),
             Clause("contrast", preset.contrast),
             Clause("density", preset.density)>>
        \o If(preset.layoutRules > 0, <<Clause("layout", preset.id)>>)
        \o If(Len(referenceCovers) > 0, <<Clause("reference", "")>>)
        \o If(Len(screenshots) > 0, ScreenshotClauses(Len(screenshots)))
        \o If(Len(logos) > 0, <<Clause("logo", "")>>)
        \o If(config.mainMessage # "", <<Clause("message", config.mainMessage)>>)
        \o <<Clause("quality", ""), Clause("no_text", ""),
             Clause("production", "")>>

Build(config, assets) ==
    [config |-> config, assets |-> assets,
     prompt |-> buildCoverPrompt(config, assets)]

\* the role asset a is selected with
RoleOf(config, a) ==
    IF \E k \in 1..Len(config.selectedAssets) :
           config.selectedAssets[k].assetId = a.id
    THEN (CHOOSE sa \in {config.selectedAssets[k] :
                            k \in 1..Len(config.selectedAssets)} :
              sa.assetId = a.id).role
    ELSE Unselected

\* the assets are listed by declared type and then by role
ListedBefore(type1, role1, type2, role2) ==
    LET Rank(x) == CASE x = "reference_cover" -> 1 [] x = "app_screenshot" -> 2
                     [] x = "brand_logo" -> 3 [] OTHER -> 4
    IN  Rank(type1) < Rank(type2)
        \/ (type1 = type2 /\ Rank(role1) <= Rank(role2))

InitPrompt ==
    /\ \E targetStore \in WizardStores, goal \in Goals,
          mainMessage \in MainMessages, stylePreset \in StylePresetIds :
         fn = Build([targetStore |-> targetStore, goal |-> goal,
                     appCategory |-> "fitness", mainMessage |-> mainMessage,
                     stylePreset |-> stylePreset, selectedAssets |-> <<>>],
                    <<>>)
    /\ job = [status |-> "queued", started_at |-> NULL, finished_at |-> NULL,
              error_message |-> NULL, error_code |-> NULL, num_variations |-> 1]
    /\ generated_outputs = {}
    /\ storage = {}
    /\ env = [GOOGLE_API_KEY |-> TRUE, GOOGLE_IMAGEN_API_KEY |-> TRUE]
    /\ req = [r \in Req |-> IdleReq]
    /\ cancelledWhileQueued = FALSE
    /\ run = NULL
    /\ db = NULL

\* one more known asset, not selected
AddAsset ==
    /\ Len(fn.assets) < MaxAssets
    /\ \E type \in AssetTypes :
         /\ fn.assets # <<>>
            => LET last == fn.assets[Len(fn.assets)] IN
               ListedBefore(last.type, RoleOf(fn.config, last), type, Unselected)
         /\ fn' = Build(fn.config,
                        Append(fn.assets, [id |-> Len(fn.assets) + 1,
                                           type |-> type]))
    /\ UNCHANGED <<lifecycle, run, db>>

\* one more known asset, selected with a role
SelectAsset ==
    /\ Len(fn.assets) < MaxAssets
    /\ \E type \in AssetTypes, role \in Roles :
         /\ fn.assets # <<>>
            => LET last == fn.assets[Len(fn.assets)] IN
               ListedBefore(last.type, RoleOf(fn.config, last), type, role)
         /\ fn' = Build([fn.config EXCEPT !.selectedAssets =
                            Append(@, [assetId |-> Len(fn.assets) + 1,
                                       role |-> role])],
                        Append(fn.assets, [id |-> Len(fn.assets) + 1,
                                           type |-> type]))
    /\ UNCHANGED <<lifecycle, run, db>>

NextPrompt == AddAsset \/ SelectAsset

SpecPrompt == InitPrompt /\ [][NextPrompt]_vars

----------------------------------------------------------------------------
(* The specifications of the pure functions and of the handlers that do    *)
(* not touch the job leave the job, its outputs and its requests idle.     *)

IdleLifecycle ==
    /\ job = [status |-> "queued", started_at |-> NULL, finished_at |-> NULL,
              error_message |-> NULL, error_code |-> NULL, num_variations |-> 1]
    /\ generated_outputs = {}
    /\ storage = {}
    /\ env = [GOOGLE_API_KEY |-> TRUE, GOOGLE_IMAGEN_API_KEY |-> TRUE]
    /\ req = [r \in Req |-> IdleReq]
    /\ cancelledWhileQueued = FALSE

----------------------------------------------------------------------------
(* getAspectRatio (prompt-builder.ts), called several times; fn is the     *)
(* history of the calls, each with its argument and its result.            *)

\* calls of the lookup in one history
MaxCalls == 3

InitLookup ==
    /\ fn = <<>>
    /\ run = NULL
    /\ db = NULL
    /\ IdleLifecycle

Lookup ==
    /\ Len(fn) < MaxCalls
    /\ \E targetStore \in StoreIds :
         fn' = Append(fn, [targetStore |-> targetStore,
                           result |-> getAspectRatio(targetStore)])
    /\ UNCHANGED <<lifecycle, run, db>>

NextLookup == Lookup

SpecLookup == InitLookup /\ [][NextLookup]_vars

----------------------------------------------------------------------------
(* critiqueCoverConfig (cover-critique.ts, src/unnamed/part_008).  The     *)
(* wizard calls it again whenever a field of the form changes; fn holds    *)
(* the configuration, the asset counts and the result of the last call.    *)
(* An issue of the result names the rule that pushed it.                   *)

\* selected assets of one role
MaxReferences == 2
MaxScreenshots == 6

\* layout variants of the form
MaxVariants == 5

\* a main message: spaces around a body without spaces
Message(spaces, body) == [spaces |-> spaces, body |-> body]

Length(message) == message.spaces + message.body

trim(message) == Message(0, message.body)

Messages ==
    {Message(spaces, body) : spaces \in {0, 60}, body \in {0, 3, 15, 60}}

RECURSIVE SumOf(_)
\* "score -= penalty" for each rule that fired, in the order of the code
SumOf(fired) ==
    IF fired = <<>> THEN 0 ELSE fired[1].penalty + SumOf(Tail(fired))

\* mutant of critiqueCoverConfig: the long message adds to the score
critiqueCoverConfigLongAdds(config, assetCounts) ==
    LET enabledVariants == SelectSeq(config.variants, LAMBDA v : v.enabled)
        rules == <<
            [rule |-> "no_reference_covers", severity |-> "error",
             fires |-> assetCounts.referenceCovers = 0, penalty |-> 20],
            [rule |-> "few_screenshots", severity |-> "warning",
             fires |-> assetCounts.screenshots < 2, penalty |-> 10],
            [rule |-> "no_variants", severity |-> "error",
             fires |-> Len(enabledVariants) = 0, penalty |-> 30],
            [rule |-> "many_variants", severity |-> "warning",
             fires |-> Len(enabledVariants) > 4, penalty |-> 5],
            [rule |-> "message_short", severity |-> "warning",
             fires |-> Length(config.mainMessage) = 0
                       \/ Length(trim(config.mainMessage)) < 5,
             penalty |-> 10],
            [rule |-> "message_long", severity |-> "info",
             fires |-> Length(config.mainMessage) # 0
                       /\ Length(config.mainMessage) > 50,
             penalty |-> 0 - 5],
            [rule |-> "premium_gaming", severity |-> "warning",
             fires |-> config.goal = "premium"
                       /\ config.stylePreset = "neon-gaming",
             penalty |-> 10],
            [rule |-> "playful_corporate", severity |-> "warning",
             fires |-> config.goal = "playful"
                       /\ config.stylePreset = "corporate-trust",
             penalty |-> 10],
            [rule |-> "many_screenshots", severity |-> "info",
             fires |-> assetCounts.screenshots > 5, penalty |-> 5],
            [rule |-> "both_stores", severity |-> "info",
             fires |-> config.targetStore = "both", penalty |-> 0]>>
        fired == SelectSeq(rules, LAMBDA r : r.fires)
        issues == [k \in DOMAIN fired |->
                      [rule |-> fired[k].rule, severity |-> fired[k].severity]]
        score == 100 - SumOf(fired)
        Count(severity) ==
            Cardinality({k \in DOMAIN issues : issues[k].severity = severity})
    IN  [score |-> IF score > 0 THEN score ELSE 0,
         issues |-> issues,
         summary |-> [band |-> IF score >= 90 THEN "excellent"
                               ELSE IF score >= 70 THEN "good"
                               ELSE IF score >= 50 THEN "needs_attention"
                               ELSE "critical",
                      errors |-> Count("error"),
                      warnings |-> Count("warning")]]

critiqueCoverConfig(config, assetCounts) ==
    LET enabledVariants == SelectSeq(config.variants, LAMBDA v : v.enabled)
        rules == <<
            [rule |-> "no_reference_covers", severity |-> "error",
             fires |-> assetCounts.referenceCovers = 0, penalty |-> 20],
            [rule |-> "few_screenshots", severity |-> "warning",
             fires |-> assetCounts.screenshots < 2, penalty |-> 10],
            [rule |-> "no_variants", severity |-> "error",
             fires |-> Len(enabledVariants) = 0, penalty |-> 30],
            [rule |-> "many_variants", severity |-> "warning",
             fires |-> Len(enabledVariants) > 4, penalty |-> 5],
            [rule |-> "message_short", severity |-> "warning",
             fires |-> Length(config.mainMessage) = 0
                       \/ Length(trim(config.mainMessage)) < 5,
             penalty |-> 10],
            [rule |-> "message_long", severity |-> "info",
             fires |-> Length(config.mainMessage) # 0
                       /\ Length(config.mainMessage) > 50,
             penalty |-> 5],
            [rule |-> "premium_gaming", severity |-> "warning",
             fires |-> config.goal = "premium"
                       /\ config.stylePreset = "neon-gaming",
             penalty |-> 10],
            [rule |-> "playful_corporate", severity |-> "warning",
             fires |-> config.goal = "playful"
                       /\ config.stylePreset = "corporate-trust",
             penalty |-> 10],
            [rule |-> "many_screenshots", severity |-> "info",
             fires |-> assetCounts.screenshots > 5, penalty |-> 5],
            [rule |-> "both_stores", severity |-> "info",
             fires |-> config.targetStore = "both", penalty |-> 0]>>
        fired == SelectSeq(rules, LAMBDA r : r.fires)
        issues == [k \in DOMAIN fired |->
                      [rule |-> fired[k].rule, severity |-> fired[k].severity]]
        score == 100 - SumOf(fired)
        Count(severity) ==
            Cardinality({k \in DOMAIN issues : issues[k].severity = severity})
    IN  [score |-> IF score > 0 THEN score ELSE 0,
         issues |-> issues,
         summary |-> [band |-> IF score >= 90 THEN "excellent"
                               ELSE IF score >= 70 THEN "good"
                               ELSE IF score >= 50 THEN "needs_attention"
                               ELSE "critical",
                      errors |-> Count("error"),
                      warnings |-> Count("warning")]]

\* updateCritique: the result for the present form
Critique(config, assetCounts) ==
    [config |-> config, assetCounts |-> assetCounts,
     result |-> critiqueCoverConfig(config, assetCounts)]

\* the first n variants of the form are enabled
Variants(n) == [k \in 1..MaxVariants |-> [id |-> k, enabled |-> k <= n]]

\* the default values of the form
InitCritique ==
    /\ fn = Critique([targetStore |-> "appstore", goal |-> "attention",
                      stylePreset |-> "minimal", mainMessage |-> Message(0, 0),
                      variants |-> Variants(2)],
                     [referenceCovers |-> 0, screenshots |-> 0, logos |-> 0])
    /\ run = NULL
    /\ db = NULL
    /\ IdleLifecycle

\* a reference cover or a screenshot is selected or unselected
ChangeAssets ==
    /\ \E referenceCovers \in 0..MaxReferences, screenshots \in 0..MaxScreenshots :
         /\ \/ referenceCovers = fn.assetCounts.referenceCovers
            \/ screenshots = fn.assetCounts.screenshots
         /\ fn' = Critique(fn.config,
                           [fn.assetCounts EXCEPT
                               !.referenceCovers = referenceCovers,
                               !.screenshots = screenshots])
    /\ UNCHANGED <<lifecycle, run, db>>

\* a variant is enabled or disabled
ChangeVariants ==
    /\ \E n \in 0..MaxVariants :
         fn' = Critique([fn.config EXCEPT !.variants = Variants(n)],
                        fn.assetCounts)
    /\ UNCHANGED <<lifecycle, run, db>>

\* the main message is edited
ChangeMessage ==
    /\ \E mainMessage \in Messages :
         fn' = Critique([fn.config EXCEPT !.mainMessage = mainMessage],
                        fn.assetCounts)
    /\ UNCHANGED <<lifecycle, run, db>>

\* the goal, the style preset or the target store is chosen
ChangeChoice ==
    /\ \E targetStore \in WizardStores, goal \in Goals,
          stylePreset \in DOMAIN STYLE_PRESETS :
         /\ \/ targetStore = fn.config.targetStore /\ goal = fn.config.goal
            \/ targetStore = fn.config.targetStore
               /\ stylePreset = fn.config.stylePreset
            \/ goal = fn.config.goal /\ stylePreset = fn.config.stylePreset
         /\ fn' = Critique([fn.config EXCEPT !.targetStore = targetStore,
                                             !.goal = goal,
                                             !.stylePreset = stylePreset],
                           fn.assetCounts)
    /\ UNCHANGED <<lifecycle, run, db>>

NextCritique == ChangeAssets \/ ChangeVariants \/ ChangeMessage \/ ChangeChoice

SpecCritique == InitCritique /\ [][NextCritique]_vars

----------------------------------------------------------------------------
(* DELETE /api/outputs/{outputId} (src/unnamed/part_012).  db holds the    *)
(* generated_outputs rows, the blobs of bucket app-covers and the delete   *)
(* requests; every await of the handler is one step.                       *)

\* output rows and concurrent delete requests
MaxOutputs == 2
MaxDeletes == 2

OutputIds == 1..MaxOutputs
DeleteReq == 1..MaxDeletes

Users == {"me", "other"}

IdleDelete == [pc |-> "idle", outputId |-> 0, storage_key |-> FALSE, resp |-> 0]

\* every row has its blob; a row belongs to the caller or to another user
InitDelete ==
    /\ \E owner \in [OutputIds -> Users] :
         db = [rows |-> [o \in OutputIds |-> [user_id |-> owner[o],
                                              storage_key |-> TRUE]],
               present |-> OutputIds,
               blobs |-> OutputIds,
               requests |-> [d \in DeleteReq |-> IdleDelete]]
    /\ run = NULL
    /\ fn = NULL
    /\ IdleLifecycle

DeleteStep(d, request) == db' = [db EXCEPT !.requests[d] = request]

DeleteAnswer(d, status) ==
    [db.requests[d] EXCEPT !.pc = "done", !.resp = status]

\* the client sends DELETE for an output
DeleteSend(d) ==
    /\ db.requests[d].pc = "idle"
    /\ \E outputId \in OutputIds :
         DeleteStep(d, [db.requests[d] EXCEPT !.pc = "auth",
                                              !.outputId = outputId])
    /\ UNCHANGED <<lifecycle, run, fn>>

\* createClient and getUser: thrown error, no user, or the user
DeleteAuth(d) ==
    /\ db.requests[d].pc = "auth"
    /\ \/ DeleteStep(d, DeleteAnswer(d, 500))
       \/ DeleteStep(d, DeleteAnswer(d, 401))
       \/ DeleteStep(d, [db.requests[d] EXCEPT !.pc = "fetch"])
    /\ UNCHANGED <<lifecycle, run, fn>>

\* select storage_key of the caller's row
DeleteFetch(d) ==
    /\ db.requests[d].pc = "fetch"
    /\ LET o == db.requests[d].outputId
       IN  IF o \in db.present /\ db.rows[o].user_id = "me"
           THEN DeleteStep(d, [db.requests[d] EXCEPT
                                   !.pc = IF db.rows[o].storage_key
                                          THEN "remove" ELSE "delete",
                                   !.storage_key = db.rows[o].storage_key])
           ELSE DeleteStep(d, DeleteAnswer(d, 404))
    /\ UNCHANGED <<lifecycle, run, fn>>

\* storage.remove: the blob is removed, or the error is logged and ignored
DeleteRemove(d) ==
    /\ db.requests[d].pc = "remove"
    /\ \/ db' = [db EXCEPT !.blobs = @ \ {db.requests[d].outputId},
                           !.requests[d].pc = "delete"]
       \/ DeleteStep(d, [db.requests[d] EXCEPT !.pc = "delete"])
    /\ UNCHANGED <<lifecycle, run, fn>>

\* delete of the row: an error is thrown to the catch block (500)
DeleteRow(d) ==
    /\ db.requests[d].pc = "delete"
    /\ \/ DeleteStep(d, DeleteAnswer(d, 500))
       \/ db' = [db EXCEPT !.present = @ \ {db.requests[d].outputId},
                           !.requests[d] = DeleteAnswer(d, 200)]
    /\ UNCHANGED <<lifecycle, run, fn>>

NextDelete ==
    \E d \in DeleteReq :
        \/ DeleteSend(d) \/ DeleteAuth(d) \/ DeleteFetch(d)
        \/ DeleteRemove(d) \/ DeleteRow(d)

SpecDelete == InitDelete /\ [][NextDelete]_vars

----------------------------------------------------------------------------
(* Assets and their tombstone.  db holds the deleted_at column of the      *)
(* assets of a project, the wizard (the list it loaded, the selection),    *)
(* the job_assets rows of the job it creates and the asset loading of the  *)
(* run that POST generate starts.  The assets tab of another window may    *)
(* tombstone an asset at any time.                                        *)

\* assets of the project
MaxAssetRows == 3

AssetIds == 1..MaxAssetRows

InitAssets ==
    /\ \E deleted \in SUBSET AssetIds :
         db = [deleted |-> deleted,
               wizard |-> [pc |-> "closed", availableAssets |-> {},
                           selectedAssets |-> {}],
               job_assets |-> {},
               generate |-> [pc |-> "idle", deletedAtStart |-> {},
                             assets |-> {}, sent |-> {}]]
    /\ run = NULL
    /\ fn = NULL
    /\ IdleLifecycle

\* assets-tab handleDelete: update deleted_at
Tombstone ==
    /\ \E a \in AssetIds \ db.deleted :
         db' = [db EXCEPT !.deleted = @ \cup {a}]
    /\ UNCHANGED <<lifecycle, run, fn>>

\* the wizard opens: fetchAssets
WizardFetchAssets ==
    /\ db.wizard.pc = "closed"
    /\ db' = [db EXCEPT !.wizard.pc = "form",
                        !.wizard.availableAssets = AssetIds \ db.deleted]
    /\ UNCHANGED <<lifecycle, run, fn>>

\* toggleAsset on an asset of the loaded list
WizardToggleAsset ==
    /\ db.wizard.pc = "form"
    /\ \E a \in db.wizard.availableAssets :
         db' = [db EXCEPT !.wizard.selectedAssets =
                              IF a \in @ THEN @ \ {a} ELSE @ \cup {a}]
    /\ UNCHANGED <<lifecycle, run, fn>>

\* onSubmit: the job and one job_assets row per selected asset; tombstoned
\* is history, it tells whether the asset had its tombstone at the insert
WizardSubmit ==
    /\ db.wizard.pc = "form"
    /\ db' = [db EXCEPT
                 !.wizard.pc = "submitted",
                 !.job_assets =
                     {[asset_id |-> a, tombstoned |-> a \in db.deleted] :
                         a \in db.wizard.selectedAssets}]
    /\ UNCHANGED <<lifecycle, run, fn>>

\* onSubmit: POST generate; deletedAtStart is history
GenerateStart ==
    /\ db.wizard.pc = "submitted"
    /\ db.generate.pc = "idle"
    /\ db' = [db EXCEPT !.generate.pc = "load",
                        !.generate.deletedAtStart = db.deleted]
    /\ UNCHANGED <<lifecycle, run, fn>>

\* POST: the job_assets of the job, then their assets with deleted_at null
GenerateLoadAssets ==
    /\ db.generate.pc = "load"
    /\ db' = [db EXCEPT
                 !.generate.pc = "download",
                 !.generate.assets =
                     {ja.asset_id : ja \in db.job_assets} \ db.deleted]
    /\ UNCHANGED <<lifecycle, run, fn>>

\* POST: download of one loaded asset, kept for the provider call; a failed
\* download is skipped
GenerateDownload ==
    /\ db.generate.pc = "download"
    /\ IF db.generate.assets = {}
       THEN db' = [db EXCEPT !.generate.pc = "call"]
       ELSE \E a \in db.generate.assets :
              \/ db' = [db EXCEPT !.generate.assets = @ \ {a},
                                  !.generate.sent = @ \cup {a}]
              \/ db' = [db EXCEPT !.generate.assets = @ \ {a}]
    /\ UNCHANGED <<lifecycle, run, fn>>

NextAssets ==
    \/ Tombstone \/ WizardFetchAssets \/ WizardToggleAsset \/ WizardSubmit
    \/ GenerateStart \/ GenerateLoadAssets \/ GenerateDownload

SpecAssets == InitAssets /\ [][NextAssets]_vars

----------------------------------------------------------------------------
(* The generation limit of the wizard (guided-job-wizard.tsx, onSubmit).   *)
(* db holds the number of generation_jobs rows of the user, all of them    *)
(* created through the wizard, and the submissions: windows of the wizard  *)
(* the user submits, each step an await of onSubmit.                       *)

\* windows of the wizard the user submits
MaxSubmits == 2

\* "count >= 5"
GenerationLimit == 5

Submits == 1..MaxSubmits

IdleSubmit == [pc |-> "idle", count |-> 0, outcome |-> NULL]

InitQuota ==
    /\ \E jobs \in 0..GenerationLimit :
         db = [jobs |-> jobs, submits |-> [s \in Submits |-> IdleSubmit]]
    /\ run = NULL
    /\ fn = NULL
    /\ IdleLifecycle

SubmitEnds(s, outcome) ==
    [db.submits[s] EXCEPT !.pc = "done", !.outcome = outcome]

\* the form is submitted: getUser
SubmitStart(s) ==
    /\ db.submits[s].pc = "idle"
    /\ \/ db' = [db EXCEPT !.submits[s] = SubmitEnds(s, "not_logged_in")]
       \/ db' = [db EXCEPT !.submits[s].pc = "count"]
    /\ UNCHANGED <<lifecycle, run, fn>>

\* "Check generation limit (5 per user)": the count query and its test
SubmitCount(s) ==
    /\ db.submits[s].pc = "count"
    /\ \/ db' = [db EXCEPT !.submits[s] = SubmitEnds(s, "count_failed")]
       \/ db' = [db EXCEPT !.submits[s] =
                    IF db.jobs >= GenerationLimit
                    THEN [SubmitEnds(s, "refused") EXCEPT !.count = db.jobs]
                    ELSE [db.submits[s] EXCEPT !.pc = "insert",
                                               !.count = db.jobs]]
    /\ UNCHANGED <<lifecycle, run, fn>>

\* "Create job": the insert into generation_jobs
SubmitInsert(s) ==
    /\ db.submits[s].pc = "insert"
    /\ \/ db' = [db EXCEPT !.submits[s] = SubmitEnds(s, "insert_failed")]
       \/ db' = [db EXCEPT !.jobs = @ + 1,
                           !.submits[s] = SubmitEnds(s, "created")]
    /\ UNCHANGED <<lifecycle, run, fn>>

NextQuota ==
    \E s \in Submits : SubmitStart(s) \/ SubmitCount(s) \/ SubmitInsert(s)

SpecQuota == InitQuota /\ [][NextQuota]_vars

----------------------------------------------------------------------------
(* Vocabulary of the properties *)

IsRun(r) == req[r].kind = "generate" \/ req[r].kind = "action"

\* r has written running and has neither thrown nor written a final status
Processing(r) == IsRun(r) /\ req[r].pc \in {"generate", "persist", "succeed"}

Quiescent == \A r \in Req : req[r].pc \in {"idle", "done"}

\* variant indexes of the Output rows / blobs that run r created
RowsOf(r) == {o.variant_index : o \in {x \in generated_outputs : x.id[1] = r}}
BlobsOf(r) == {k[2] : k \in {x \in storage : x[1] = r}}

PersistenceErrors(i) == {UploadFailed(i), SaveFailed(i), InsertErrorMessage}

\* the edges of the status state machine of the specification
StateMachineEdges ==
    { <<"queued", "running">>, <<"running", "succeeded">>,
      <<"running", "failed">>, <<"running", "cancelled">>,
      <<"queued", "cancelled">>, <<"failed", "queued">>,
      <<"cancelled", "queued">> }

----------------------------------------------------------------------------
(* Properties *)

\* C1: every change of the job's persisted status follows an edge of the
\* state machine queued->running, running->succeeded|failed|cancelled,
\* queued->cancelled, failed->queued, cancelled->queued.
C1_StatusFollowsStateMachine ==
    [][job'.status # job.status
          => <<job.status, job'.status>> \in StateMachineEdges]_vars

\* C2: while one invocation is between its write of running and its final
\* status write, no other invocation passes the status guard, gets images
\* from the provider or inserts an Output row.
C2_OneInvocationPerJob ==
    [][\A a, b \in Req :
          (a # b /\ Processing(a) /\ IsRun(b))
          => /\ ~(req[b].pc = "fetch" /\ req'[b].pc \in {"reset", "set_running"})
             /\ ~(req[b].pc = "generate" /\ req'[b].pc = "persist")
             /\ RowsOf(b)' = RowsOf(b)]_vars

\* C3: no two Output rows of the job have the same variant index.
C3_VariantIndexUnique ==
    \A o1, o2 \in generated_outputs :
        o1.variant_index = o2.variant_index => o1 = o2

\* C4: an Output row is inserted only while the job's persisted status is
\* running.
C4_InsertOnlyWhileRunning ==
    [][generated_outputs' # generated_outputs => job.status = "running"]_vars

\* C5: once the job's status is succeeded it never changes again.
C5_SucceededIsTerminal ==
    [][job.status = "succeeded" => job'.status = "succeeded"]_vars

\* C6: a job cancelled while queued is not running as long as no generate
\* request has been issued after that cancellation.
C6_CancelledQueuedNeverRuns ==
    cancelledWhileQueued => job.status # "running"

\* C7: a cancel request that finds the job succeeded, failed or cancelled
\* answers with an error and leaves the row unchanged; it writes only after
\* it found the job queued or running, and then sets status cancelled, the
\* finish timestamp and the message 'Cancelled by user', nothing else.
C7_CancelOnlyQueuedOrRunning ==
    [][\A r \in Req :
          req[r].kind = "cancel" =>
            /\ (req[r].pc = "fetch" /\ req'[r].pc # "fetch")
               => /\ job' = job
                  /\ ~(job.status \in {"queued", "running"})
                     => (req'[r].pc = "done" /\ req'[r].resp >= 400)
            /\ (req[r].pc = "update" /\ req'[r].pc # "update")
               => /\ req[r].status \in {"queued", "running"}
                  /\ req'[r].pc = "done"
                  /\ IF req'[r].resp = 200
                     THEN job' = [job EXCEPT !.status = "cancelled",
                                             !.finished_at = NOW,
                                             !.error_message = CancelledByUser]
                     ELSE job' = job]_vars

C7_Witness ==
    \E r \in Req :
        /\ req[r].kind = "cancel" /\ req[r].pc = "done" /\ req[r].resp = 400
        /\ job.status = "succeeded"

\* C8: the write that moves a restarted (failed or cancelled) job to running
\* leaves it with no error message and no error code.
C8_RestartClearsErrors ==
    [][\A r \in Req :
          (/\ req[r].kind = "generate"
           /\ req[r].status \in {"failed", "cancelled"}
           /\ req[r].pc = "set_running" /\ req'[r].pc = "generate")
          => (job'.error_message = NULL /\ job'.error_code = NULL)]_vars

\* C9: a run ends with an error only by the step that writes status failed
\* with the finish timestamp, the error's message and GENERATION_ERROR, every
\* thrown error is followed by that step, and when no request is in flight
\* the job is not running.
C9_ErrorWritesFailed ==
    /\ [](Quiescent => job.status # "running")
    /\ [][\A r \in Req :
             IsRun(r) =>
               /\ (req[r].pc \in {"generate", "persist"} /\ req'[r].pc = "done")
                  => FALSE
               /\ (req[r].pc = "catch" /\ req'[r].pc # "catch")
                  => /\ req'[r].pc = "done" /\ req'[r].resp = 500
                     /\ job' = [job EXCEPT !.status = "failed",
                                           !.finished_at = NOW,
                                           !.error_message = req[r].error,
                                           !.error_code = GENERATION_ERROR]]_vars

C9_Witness ==
    \E r \in Req :
        /\ req[r].kind = "generate" /\ req[r].pc = "done" /\ req[r].resp = 500
        /\ job.status = "failed" /\ job.error_message = SaveFailed(1)
        /\ job.error_code = GENERATION_ERROR /\ job.finished_at = NOW

----------------------------------------------------------------------------
(* Properties of one run in detail (specification SpecRun) *)

\* the images that the answered requests of a log carried, in order
RECURSIVE Collected(_)
Collected(log) ==
    IF log = <<>> THEN <<>>
    ELSE Yield(Head(log).index, Head(log).images) \o Collected(Tail(log))

GeminiRun == run.path = "generate" /\ run.requests # <<>>

LaterRequestFailed ==
    \E k \in 2..Len(run.requests) : ~run.requests[k].ok

\* C11: in the per-variation adapter a failed first request aborts the call
\* with an error after that one request; a failed later request is swallowed:
\* every variation is still requested and the call returns the images of the
\* answered requests; a run that writes succeeded has inserted one Output
\* row per returned image.
C11_FirstFatalLaterSwallowed ==
    /\ (GeminiRun /\ ~run.requests[1].ok)
       => /\ Len(run.requests) = 1 /\ run.pc \in {"catch", "done"}
          /\ run.error = GeminiFirstFailed
          /\ run.outputs = <<>> /\ run.status # "succeeded"
    /\ (GeminiRun /\ run.requests[1].ok /\ run.pc # "request")
       => /\ Len(run.requests) = run.num_variations
          /\ run.generatedImages = Collected(run.requests)
          /\ run.error # GeminiFirstFailed
          /\ (run.error = GeminiNoImages) = (run.generatedImages = <<>>)
    /\ (run.path = "generate" /\ run.status = "succeeded")
       => /\ Len(run.outputs) = Len(run.generatedImages)
          /\ \A k \in 1..Len(run.outputs) : run.outputs[k].variant_index = k - 1

C11_Witness ==
    /\ run.path = "generate" /\ run.num_variations = 2
    /\ Len(run.requests) = 2
    /\ run.requests[1].ok /\ run.requests[1].images = 1
    /\ ~run.requests[2].ok
    /\ run.status = "succeeded" /\ Len(run.outputs) = 1

\* the key that the adapter of the run's path reads is not configured
KeyMissing ==
    IF run.path = "generate" THEN ~run.GOOGLE_API_KEY
                             ELSE ~run.GOOGLE_IMAGEN_API_KEY

KeyMissingMessage ==
    IF run.path = "generate" THEN GeminiKeyMissing ELSE ImagenKeyMissing

\* C12: with no API key configured no HTTP request is ever sent to the
\* provider; once the adapter is called the run has thrown the configuration
\* error naming the missing key, it ends with status failed and that message,
\* and it uploads nothing and creates no Output row.
C12_NoKeyNoRequest ==
    KeyMissing
    => /\ run.requests = <<>>
       /\ run.outputs = <<>> /\ run.blobs = 0
       /\ run.status # "succeeded"
       /\ run.called
          => /\ run.pc \in {"catch", "done"}
             /\ run.error = KeyMissingMessage
             /\ run.pc = "done"
                => /\ run.status = "failed"
                   /\ run.error_message = KeyMissingMessage
                   /\ run.error_code = GENERATION_ERROR

C12_Witness ==
    /\ KeyMissing /\ run.called /\ run.path = "generate" /\ run.pc = "done"
    /\ run.status = "failed" /\ run.error_message = GeminiKeyMissing

\* every image the adapter returned has its Output row
AllPersisted ==
    /\ run.generatedImages # <<>>
    /\ Len(run.outputs) = Len(run.generatedImages)
    /\ \A k \in 1..Len(run.outputs) : run.outputs[k].variant_index = k - 1

\* an iOS / 1:1 job: the store the action resizes to a square, the aspect
\* ratio POST resizes to a square
IosSquareJob ==
    IF run.path = "action" THEN run.target_store = "ios"
                           ELSE run.aspect_ratio = "1:1"

\* when the k >= 1 returned images are all uploaded and inserted the run
\* goes on to write succeeded, and it writes succeeded in no other case
SucceededIffAllPersisted ==
    /\ AllPersisted => /\ run.pc \in {"succeed", "done"} /\ run.error = NULL
                       /\ run.pc = "done" => run.status = "succeeded"
    /\ (run.pc = "succeed" \/ run.status = "succeeded") => AllPersisted

\* C13 (as stated): k >= 1 images all uploaded and inserted give status
\* succeeded and exactly k Output rows with variant indexes 0..k-1, each
\* 1024 x 1024 for an iOS / 1:1 job; succeeded is never written with no row.
C13_SucceededWithSquareRows ==
    /\ SucceededIffAllPersisted
    /\ (AllPersisted /\ IosSquareJob)
       => \A k \in 1..Len(run.outputs) :
             run.outputs[k].width = 1024 /\ run.outputs[k].height = 1024

\* C13 (amended): the same, with 1024 x 1024 on each row whose image the
\* resize step could process; the row of an image kept in its original
\* bytes has the size read from those bytes.
C13_SucceededWithResizedSquareRows ==
    /\ SucceededIffAllPersisted
    /\ (AllPersisted /\ IosSquareJob)
       => \A k \in 1..Len(run.outputs) :
             run.outputs[k].is_png
             => (run.outputs[k].width = 1024 /\ run.outputs[k].height = 1024)

C13_Witness ==
    /\ run.path = "generate" /\ run.aspect_ratio = "1:1"
    /\ run.status = "succeeded" /\ Len(run.outputs) = 2
    /\ \A k \in 1..2 : /\ run.outputs[k].is_png
                       /\ run.outputs[k].width = 1024
                       /\ run.outputs[k].height = 1024

\* a request of the batched adapter whose body yielded at least one image
Yielding(e) == e.ok /\ e.images > 0

ImagenRun == run.path = "action" /\ run.requests # <<>>

LastRequest == run.requests[Len(run.requests)]

\* C15: the batched adapter calls its endpoints in list order, each at most
\* once, and calls none after the first one whose response yields an image;
\* the images it returns are exactly those of that response.
C15_FirstYieldingEndpointWins ==
    run.path = "action"
    => /\ Len(run.requests) <= Len(endpoints(run))
       /\ \A k \in 1..Len(run.requests) :
             /\ run.requests[k].index = endpoints(run)[k]
             /\ k < Len(run.requests) => ~Yielding(run.requests[k])
       /\ IF ImagenRun /\ Yielding(LastRequest)
          THEN /\ run.pc # "request"
               /\ run.generatedImages =
                     Yield(LastRequest.index, LastRequest.images)
               /\ run.error # ImagenExhausted
          ELSE run.generatedImages = <<>>

C15_Witness ==
    /\ run.path = "action" /\ Len(endpoints(run)) = 2
    /\ Len(run.requests) = 1 /\ run.requests[1].images = 2
    /\ run.status = "succeeded" /\ Len(run.outputs) = 2

\* C16: a failed or empty attempt on one endpoint is followed by the attempt
\* on the next one; the call raises its error only after every endpoint was
\* tried without any image, and the error states the number of endpoints
\* tried and the message of the last failed attempt.
C16_ExhaustedNamesLastAttempt ==
    (run.path = "action" /\ run.error = ImagenExhausted)
    => /\ Len(run.requests) = Len(endpoints(run))
       /\ \A k \in 1..Len(run.requests) : ~Yielding(run.requests[k])
       /\ run.tried = Len(endpoints(run))
       /\ run.lastError.endpoint = LastRequest.index

----------------------------------------------------------------------------
(* Properties of the job lifecycle, continued (specification Spec) *)

\* C14: every Output row's variant index is below the job's requested
\* number of variations.
C14_VariantIndexBelowRequested ==
    \A o \in generated_outputs : o.variant_index < job.num_variations

----------------------------------------------------------------------------
(* Properties of extractImagesFromResponse (specification SpecExtract) *)

\* the fields each array shape recognizes in an item
Recognized(name) ==
    IF name = "generatedImages" THEN ItemFields
    ELSE {"bytesBase64Encoded", "imageUri", "base64"}

RecognizedItems(name, shape) ==
    IF shape.isArray
    THEN {k \in 1..Len(shape.items) :
             shape.items[k].fields \cap Recognized(name) # {}}
    ELSE {}

ImageParts(shape) ==
    IF shape.isArray
    THEN {cp \in (1..Len(shape.items)) \X (1..MaxItems) :
             /\ shape.items[cp[1]].hasParts
             /\ cp[2] <= Len(shape.items[cp[1]].parts)
             /\ shape.items[cp[1]].parts[cp[2]] = "image"}
    ELSE {}

\* the order of the shapes in the result
ShapeRank(name) ==
    IF name = "generatedImages" THEN 1
    ELSE IF name = "predictions" THEN 2
    ELSE IF name = "direct" THEN 3 ELSE 4

Before(a, b) ==
    \/ ShapeRank(a.shape) < ShapeRank(b.shape)
    \/ a.shape = b.shape /\ a.at < b.at

\* the image was taken from an item of the body that has its field
TakenFrom(data, image) ==
    IF image.shape = "direct" THEN image.field \in data.direct
    ELSE IF image.shape = "candidates"
         THEN \E cp \in ImageParts(data.candidates) :
                  image.at = PartAt(cp[1], cp[2])
         ELSE /\ image.at \in RecognizedItems(image.shape, data[image.shape])
              /\ image.field \in data[image.shape].items[image.at].fields

\* C17: extractImagesFromResponse returns, for every body, one image per
\* recognized item and nothing else, the shapes in the order generatedImages,
\* predictions, direct fields, candidates and the items of a shape in the
\* body's order; an item with no recognized field contributes nothing and no
\* item is returned twice.
C17_OneImagePerRecognizedItem ==
    LET data == fn.body
        images == fn.result.images
    IN  /\ ~fn.result.threw
        /\ Len(images) = Cardinality(RecognizedItems("generatedImages",
                                                     data.generatedImages))
                         + Cardinality(RecognizedItems("predictions",
                                                       data.predictions))
                         + Cardinality(data.direct)
                         + Cardinality(ImageParts(data.candidates))
        /\ \A k \in 1..Len(images) : TakenFrom(data, images[k])
        /\ \A k \in 1..(Len(images) - 1) : Before(images[k], images[k + 1])

----------------------------------------------------------------------------
(* Properties of buildCoverPrompt (specification SpecPrompt) *)

\* the order in which the function appends its sentences
ClauseOrder ==
    <<"opening", "goal", "square", "wide", "style", "tone", "contrast",
      "density", "layout", "reference", "screenshots", "screenshot_layout",
      "logo", "message", "quality", "no_text", "production">>

Position(kind) == CHOOSE k \in DOMAIN ClauseOrder : ClauseOrder[k] = kind

InOrder(prompt) ==
    \A i, j \in DOMAIN prompt :
        i < j => Position(prompt[i].kind) < Position(prompt[j].kind)

Clauses(prompt, kind) == {k \in DOMAIN prompt : prompt[k].kind = kind}

Has(prompt, kind) == Clauses(prompt, kind) # {}

\* C18: for every configuration the prompt starts with the opening, ends
\* with the closing sentences, keeps the fixed order of the sentences, has
\* the goal sentence of the configured goal exactly once, the square-format
\* sentence iff the target is appstore or both, the wide-banner sentence iff
\* the target is playstore or both, and the main message, verbatim, iff it
\* is not empty.
C18_ClausesInFixedOrder ==
        LET prompt == fn.prompt
            config == fn.config
        IN  /\ prompt[1].kind = "opening"
            /\ InOrder(prompt)
            /\ Cardinality(Clauses(prompt, "goal")) = 1
            /\ \A k \in Clauses(prompt, "goal") : prompt[k].arg = config.goal
            /\ Has(prompt, "square") <=> config.targetStore \in {"appstore", "both"}
            /\ Has(prompt, "wide") <=> config.targetStore \in {"playstore", "both"}
            /\ Has(prompt, "message") <=> config.mainMessage # ""
            /\ \A k \in Clauses(prompt, "message") :
                   prompt[k].arg = config.mainMessage
            /\ Len(prompt) >= 3
            /\ prompt[Len(prompt) - 2].kind = "quality"
            /\ prompt[Len(prompt) - 1].kind = "no_text"
            /\ prompt[Len(prompt)].kind = "production"

\* a prompt for both stores with a main message and all three kinds of assets
C18_Witness ==
    /\ fn.config.targetStore = "both"
    /\ fn.config.mainMessage # ""
    /\ Has(fn.prompt, "square") /\ Has(fn.prompt, "wide")
    /\ Has(fn.prompt, "reference") /\ Has(fn.prompt, "screenshots")
    /\ Has(fn.prompt, "logo") /\ Has(fn.prompt, "message")

RoleClause(role) ==
    CASE role = "reference_cover" -> "reference"
      [] role = "app_screenshot" -> "screenshots"
      [] role = "brand_logo" -> "logo"

\* the selections of the configuration with a role
SelectionsWith(config, role) ==
    {k \in DOMAIN config.selectedAssets : config.selectedAssets[k].role = role}

----------------------------------------------------------------------------
(* Properties of the post-processing (specification SpecRun) *)

\* the row of the Prompt Builder's aspect-ratio table for a store identifier
TableRow(store) ==
    IF store \in {"ios", "appstore"} THEN getAspectRatio("appstore")
    ELSE IF store \in {"android", "playstore"} THEN getAspectRatio("playstore")
    ELSE getAspectRatio("both")

\* C20: in both orchestrator paths every Output row records the dimensions
\* of the aspect-ratio table for the job's store (1024x1024 for the iOS
\* store, 1024x500 for the Android store, 1024x1024 for both or an
\* unrecognized identifier) and its bytes were re-encoded to PNG.
C20_RowsHaveTableDimensions ==
    \A k \in DOMAIN run.outputs :
        /\ run.outputs[k].width = TableRow(run.target_store).width
        /\ run.outputs[k].height = TableRow(run.target_store).height
        /\ run.outputs[k].is_png

----------------------------------------------------------------------------
(* Properties of getAspectRatio (specification SpecLookup) *)

----------------------------------------------------------------------------
(* Properties of critiqueCoverConfig (specification SpecCritique) *)

\* the penalty of each rule
Penalty ==
    [rule \in {"no_reference_covers", "few_screenshots", "no_variants",
               "many_variants", "message_short", "message_long",
               "premium_gaming", "playful_corporate", "many_screenshots",
               "both_stores"} |->
        CASE rule = "no_variants" -> 30
          [] rule = "no_reference_covers" -> 20
          [] rule \in {"few_screenshots", "message_short", "premium_gaming",
                       "playful_corporate"} -> 10
          [] rule = "both_stores" -> 0
          [] OTHER -> 5]

\* the rules whose issue is in the result
FiredRules(result) == {result.issues[k].rule : k \in DOMAIN result.issues}

RECURSIVE PenaltiesOf(_)
PenaltiesOf(rules) ==
    IF rules = {} THEN 0
    ELSE LET rule == CHOOSE x \in rules : TRUE
         IN  Penalty[rule] + PenaltiesOf(rules \ {rule})

\* C22: the score is max(0, 100 - the penalties of the rules that fired),
\* no rule fires twice, target store both is an info issue without penalty,
\* the score is within 0..100, and a change of the form after which the
\* rules that fired before still fire and one more fires does not raise
\* the score.
C22_ScoreIsClampedPenaltySum ==
    /\ [](LET result == fn.result
              raw == 100 - PenaltiesOf(FiredRules(result))
          IN  /\ result.score = IF raw > 0 THEN raw ELSE 0
              /\ Cardinality(FiredRules(result)) = Len(result.issues)
              /\ FiredRules(result) \subseteq DOMAIN Penalty
              /\ fn.config.targetStore = "both"
                    <=> \E k \in DOMAIN result.issues :
                           result.issues[k] = [rule |-> "both_stores",
                                               severity |-> "info"]
              /\ result.score \in 0..100)
    /\ [][(/\ FiredRules(fn.result) \subseteq FiredRules(fn'.result)
           /\ FiredRules(fn.result) # FiredRules(fn'.result))
             => fn'.result.score <= fn.result.score]_vars

\* the form with the most penalties: no reference, no screenshot, no
\* variant, a long message of spaces, a premium goal in the gaming style
C22_Witness ==
    /\ FiredRules(fn.result) =
          {"no_reference_covers", "few_screenshots", "no_variants",
           "message_short", "message_long", "premium_gaming", "both_stores"}
    /\ fn.result.score = 15

----------------------------------------------------------------------------
(* Properties of DELETE output (specification SpecDelete) *)

\* C23: after a delete request answered success the row and its blob are
\* gone, and no row is deleted while its blob stays in storage.
C23_DeletedRowHasNoBlob ==
    /\ \A d \in DeleteReq :
          db.requests[d].resp = 200
              => /\ db.requests[d].outputId \notin db.present
                 /\ db.requests[d].outputId \notin db.blobs
    /\ \A o \in OutputIds : o \notin db.present => o \notin db.blobs

----------------------------------------------------------------------------
(* Properties of the per-image loop, continued (specification SpecRun) *)

\* C24: a failure to decode, measure, resize or re-encode one image never
\* fails the run: no run reaches its catch block, and no job is written
\* failed, with the error of the image library.
C24_ImageFailureNeverFatal ==
    /\ run.error # SharpError
    /\ run.status = "failed" => run.error_message # SharpError

----------------------------------------------------------------------------
(* Properties of the asset tombstone (specification SpecAssets) *)

\* C25: a tombstoned asset is not offered by the wizard, is not recorded in
\* a new job_assets row and is not downloaded by a run that started after
\* the tombstone was set; job_assets rows are never removed.
C25_TombstonedAssetInvisible ==
    /\ [](/\ db.wizard.pc = "form"
             => db.wizard.availableAssets \cap db.deleted = {}
          /\ \A ja \in db.job_assets : ~ja.tombstoned
          /\ db.generate.sent \cap db.generate.deletedAtStart = {})
    /\ [][db.job_assets \subseteq db'.job_assets]_vars

----------------------------------------------------------------------------
(* Properties of the job lifecycle, continued (specification Spec) *)

\* C26: a run in flight does not read the cancellation.  While the job is
\* cancelled the run does not end before its own final write, each
\* iteration of its loop still uploads and inserts (or throws), and its
\* final write puts succeeded or failed over cancelled.
C26_RunOverwritesCancellation ==
    [][\A r \in Req :
          (IsRun(r) /\ job.status = "cancelled" /\ req'[r] # req[r]) =>
            /\ req[r].pc \in {"generate", "persist"} => req'[r].pc # "done"
            /\ req[r].pc = "persist"
               => \/ req'[r].pc = "catch"
                  \/ /\ OutputRow(r, req[r].i) \in generated_outputs'
                     /\ <<r, req[r].i>> \in storage'
            /\ req[r].pc = "succeed"
               => (req'[r].pc = "done" /\ job'.status = "succeeded")
            /\ req[r].pc = "catch"
               => (req'[r].pc = "done" /\ job'.status = "failed")]_vars

\* the only run of the job ended succeeded, with its outputs, over a
\* cancellation that was written while the job was running
C26_Witness ==
    /\ job.status = "succeeded"
    /\ job.error_message = CancelledByUser
    /\ ~cancelledWhileQueued
    /\ Cardinality({r \in Req : IsRun(r)}) = 1
    /\ \E r \in Req : req[r].kind = "generate" /\ req[r].pc = "done"
                      /\ req[r].resp = 200
    /\ \E r \in Req : req[r].kind = "cancel" /\ req[r].pc = "done"
                      /\ req[r].resp = 200
    /\ generated_outputs # {}

\* C27: a generate request that has not passed the status guard (it was
\* rejected, or it raised an error before the guard) takes no step that
\* changes the job row; only a request that moved the job to running
\* writes failed.
C27_FailedOnlyAfterRunning ==
    [][\A r \in Req :
          (/\ req[r].kind = "generate"
           /\ req[r].status = NULL
           /\ req'[r] # req[r])
          => job' = job]_vars

\* C28: when a run has ended, every blob it uploaded has an Output row
\* holding its storage key.
C28_EndedRunLeavesNoBlobWithoutRow ==
    \A r \in Req :
        (IsRun(r) /\ req[r].pc = "done")
            => \A k \in storage :
                  k[1] = r => \E o \in generated_outputs : o.storage_key = k

\* C29: the finish timestamp is set exactly while the status is succeeded,
\* failed or cancelled (never in queued or running, also after a restart),
\* and a job that is running or succeeded has a start timestamp.
C29_FinishTimestampIffEnded ==
    /\ job.finished_at # NULL
          <=> job.status \in {"succeeded", "failed", "cancelled"}
    /\ job.status \in {"running", "succeeded"} => job.started_at # NULL

----------------------------------------------------------------------------
(* Properties of the generation limit (specification SpecQuota) *)

\* C30: the user never has more than 5 jobs created through the wizard,
\* and a submission that finds 5 or more jobs is refused, also when
\* submissions are concurrent.
C30_AtMostFiveJobs ==
    /\ db.jobs <= GenerationLimit
    /\ \A s \in Submits :
          (db.submits[s].pc = "done" /\ db.submits[s].count >= GenerationLimit)
              => db.submits[s].outcome = "refused"

============================================================================
